---- MODULE Spec2Model ----
(***************************************************************************)
(* Rule-based sepsis screening server (src/server.js).                     *)
(*                                                                         *)
(* The model covers the qSOFA scoring function, the Patient and Reading    *)
(* collections, the handler that records a reading and the handler that    *)
(* returns a patient's summary with the alerts derived from adjacent       *)
(* readings.                                                               *)
(*                                                                         *)
(* Strings the code inspects character by character (mentalStatus, which   *)
(* goes through toLowerCase) are sequences of one-character strings.       *)
(* Strings the code only stores or emits are TLA+ strings.                 *)
(***************************************************************************)
EXTENDS Integers, Sequences, FiniteSets, TLC

VARIABLES
    patients,       \* the Patient collection, in insertion order
    readings,       \* the Reading collection, in insertion order
    response,       \* the response of the last request handled
    observation,    \* the argument of a direct calculateQSOFA call
    scoreResult,    \* what that call returned
    requests        \* the POST reading requests handled await by await

vars == <<patients, readings, response, observation, scoreResult, requests>>

----------------------------------------------------------------------------
(* Bounds of the model *)

\* the Reading collection holds at most this many documents in Spec
MaxReadings == 2

\* ... in SpecWard
MaxWard == 3

\* ... in SpecTrajectory
MaxHistory == 5

\* the requests of one patient handled one after the other in SpecPatient
MaxCalls == 3

\* the POST requests accepted in a run of SpecConcurrent
MaxPosts == 2

----------------------------------------------------------------------------
(* Program constants *)

RR_THRESHOLD == 22
SBP_THRESHOLD == 100

----------------------------------------------------------------------------
(* Strings *)

UpperCase == <<"A","B","C","D","E","F","G","H","I","J","K","L","M",
               "N","O","P","Q","R","S","T","U","V","W","X","Y","Z">>
LowerCase == <<"a","b","c","d","e","f","g","h","i","j","k","l","m",
               "n","o","p","q","r","s","t","u","v","w","x","y","z">>

\* String.prototype.toLowerCase on one character
lowerChar(c) ==
    IF \E i \in DOMAIN UpperCase : UpperCase[i] = c
    THEN LowerCase[CHOOSE i \in DOMAIN UpperCase : UpperCase[i] = c]
    ELSE c

\* String.prototype.toLowerCase
toLowerCase(s) == [i \in DOMAIN s |-> lowerChar(s[i])]

\* the literal 'alert'
ALERT_LITERAL == <<"a","l","e","r","t">>

S_Alert    == <<"A","l","e","r","t">>
S_alert    == <<"a","l","e","r","t">>
S_ALERT    == <<"A","L","E","R","T">>
S_Confused == <<"C","o","n","f","u","s","e","d">>
S_Drowsy   == <<"D","r","o","w","s","y">>
S_Empty    == <<>>

----------------------------------------------------------------------------
(* calculateQSOFA *)

REASON_RR  == "Respiratory rate at or above 22 breaths/min"
REASON_SBP == "Systolic blood pressure at or below 100 mmHg"
REASON_MS  == "Altered mental status (not fully alert)"

\* the truthiness of a string: non-empty
truthy(s) == s # <<>>

\* mutant: the threshold taken as exclusive
rrCriterion_exclusive(respiratoryRate) == respiratoryRate > RR_THRESHOLD

rrCriterion(respiratoryRate) == respiratoryRate >= RR_THRESHOLD

sbpCriterion(systolicBP) == systolicBP <= SBP_THRESHOLD

msCriterion(mentalStatus) ==
    truthy(mentalStatus) /\ toLowerCase(mentalStatus) # ALERT_LITERAL

\* mutant: "High" only above 2
riskLabelOf_above2(score) ==
    IF score > 2 THEN "High screening score"
    ELSE IF score = 1 THEN "Intermediate screening score"
    ELSE "Low screening score"

riskLabelOf(score) ==
    IF score >= 2 THEN "High screening score"
    ELSE IF score = 1 THEN "Intermediate screening score"
    ELSE "Low screening score"

calculateQSOFA(o) ==
    LET s1 == IF rrCriterion(o.respiratoryRate) THEN 1 ELSE 0
        r1 == IF rrCriterion(o.respiratoryRate) THEN <<REASON_RR>> ELSE <<>>
        s2 == s1 + (IF sbpCriterion(o.systolicBP) THEN 1 ELSE 0)
        r2 == r1 \o (IF sbpCriterion(o.systolicBP) THEN <<REASON_SBP>> ELSE <<>>)
        s3 == s2 + (IF msCriterion(o.mentalStatus) THEN 1 ELSE 0)
        r3 == r2 \o (IF msCriterion(o.mentalStatus) THEN <<REASON_MS>> ELSE <<>>)
    IN  [score |-> s3, riskLabel |-> riskLabelOf(s3), reasons |-> r3]

----------------------------------------------------------------------------
(* Requests *)

RequiredFields == {"respiratoryRate", "systolicBP", "mentalStatus", "timestamp"}

\* request bodies that carry every field
bodies(names, locations, rates, pressures, statuses, times) ==
    [name : names, location : locations, respiratoryRate : rates,
     systolicBP : pressures, mentalStatus : statuses, timestamp : times]

withoutField(b, f) == [g \in (DOMAIN b) \ {f} |-> b[g]]

\* request bodies the handler rejects: a required field is absent, or
\* mentalStatus is the empty string
BadBodies ==
    LET b == [name |-> "Ann", location |-> "ICU", respiratoryRate |-> 22,
              systolicBP |-> 100, mentalStatus |-> S_Confused, timestamp |-> 1]
    IN  {withoutField(b, f) : f \in RequiredFields}
          \cup {[b EXCEPT !.mentalStatus = S_Empty]}

\* req.body.<f> for the optional text fields; an absent field and the empty
\* string are both falsy and are not told apart
textField(b, f) == IF f \in DOMAIN b THEN b[f] ELSE ""

truthyText(s) == s # ""

----------------------------------------------------------------------------
(* Patient collection *)

\* Patient.findOne({ externalId }): the index of the first match, 0 for null
findOne(ps, externalId) ==
    IF \E i \in DOMAIN ps : ps[i].externalId = externalId
    THEN CHOOSE i \in DOMAIN ps :
            /\ ps[i].externalId = externalId
            /\ \A j \in DOMAIN ps : ps[j].externalId = externalId => i <= j
    ELSE 0

\* ensurePatient: the Patient collection afterwards and the patient's _id
ensurePatient(ps, externalId, name, location) ==
    LET i == findOne(ps, externalId) IN
    IF i = 0
    THEN [patients |-> Append(ps, [_id |-> Len(ps) + 1, externalId |-> externalId,
                                   name |-> name, location |-> location]),
          patient  |-> Len(ps) + 1]
    ELSE IF (truthyText(name) /\ name # ps[i].name)
              \/ (truthyText(location) /\ location # ps[i].location)
    THEN [patients |-> [ps EXCEPT
                          ![i].name = IF truthyText(name) THEN name ELSE @,
                          ![i].location = IF truthyText(location) THEN location ELSE @],
          patient  |-> ps[i]._id]
    ELSE [patients |-> ps, patient |-> ps[i]._id]

----------------------------------------------------------------------------
(* POST /api/patients/:externalId/readings *)

missingRequired(b) ==
    \/ "respiratoryRate" \notin DOMAIN b
    \/ "systolicBP" \notin DOMAIN b
    \/ "mentalStatus" \notin DOMAIN b
    \/ ~truthy(b.mentalStatus)
    \/ "timestamp" \notin DOMAIN b

newReading(pid, b) ==
    LET q == calculateQSOFA([respiratoryRate |-> b.respiratoryRate,
                             systolicBP |-> b.systolicBP,
                             mentalStatus |-> b.mentalStatus])
    IN  [patient |-> pid,
         respiratoryRate |-> b.respiratoryRate,
         systolicBP |-> b.systolicBP,
         mentalStatus |-> b.mentalStatus,
         timestamp |-> b.timestamp,
         qsofaScore |-> q.score,
         qsofaRiskLabel |-> q.riskLabel,
         qsofaReasons |-> q.reasons]

\* mutant: one reading per patient, the new one in the place of the old one
createReading_upsert(rs, reading) ==
    IF \E i \in DOMAIN rs : rs[i].patient = reading.patient
    THEN [i \in DOMAIN rs |-> IF rs[i].patient = reading.patient THEN reading ELSE rs[i]]
    ELSE Append(rs, reading)

\* Reading.create(...): the Reading collection afterwards
createReading(rs, reading) == Append(rs, reading)

\* createOk: whether Reading.create resolves; when it rejects the handler
\* answers 500 and the patient that ensurePatient stored stays
PostReading(externalId, b, createOk) ==
    /\ UNCHANGED <<observation, scoreResult, requests>>
    /\ IF missingRequired(b)
       THEN /\ response' = [op |-> "postReading", status |-> 400,
                            error |-> "Missing required fields. Require respiratoryRate, systolicBP, mentalStatus, timestamp."]
            /\ UNCHANGED <<patients, readings>>
       ELSE LET ep == ensurePatient(patients, externalId,
                                    textField(b, "name"), textField(b, "location"))
                reading == newReading(ep.patient, b)
            IN  /\ patients' = ep.patients
                /\ IF createOk
                   THEN /\ readings' = createReading(readings, reading)
                        /\ response' = [op |-> "postReading", status |-> 201,
                                        patientId |-> externalId, reading |-> reading]
                   ELSE /\ readings' = readings
                        /\ response' = [op |-> "postReading", status |-> 500,
                                        error |-> "Failed to record reading"]

----------------------------------------------------------------------------
(* GET /api/patients/:externalId/summary *)

T_ESCALATING == "Risk escalating"
T_HIGH       == "High risk screening score"
T_RR         == "Respiratory rate threshold crossed"
T_SBP        == "Blood pressure threshold crossed"
T_MS         == "Change in mental status"

\* Reading.find({ patient }): the patient's readings, in insertion order
findReadings(rs, pid) == SelectSeq(rs, LAMBDA r : r.patient = pid)

\* the orders of the documents m[i], i \in S, that ascend by timestamp
RECURSIVE ascendingOrders(_, _)
ascendingOrders(m, S) ==
    IF S = {} THEN {<<>>}
    ELSE UNION {{<<m[i]>> \o rest : rest \in ascendingOrders(m, S \ {i})} :
                  i \in {j \in S : \A k \in S : m[j].timestamp <= m[k].timestamp}}

\* .sort({ timestamp: 1 }): the orders the sort may return. Documents with
\* equal timestamps come in an order the database does not fix.
sortByTimestamp(m) == ascendingOrders(m, DOMAIN m)

\* mutant: an unchanged score counts as an escalation
escalating_orEqual(prev, curr) == curr.qsofaScore >= prev.qsofaScore

escalating(prev, curr) == curr.qsofaScore > prev.qsofaScore

\* mutant: only the first crossing to a high score
highRisk_edge(prev, curr) == curr.qsofaScore >= 2 /\ prev.qsofaScore < 2

highRisk(prev, curr) == curr.qsofaScore >= 2

\* mutant: the previous reading is not looked at
rrCrossed_level(prev, curr) == curr.respiratoryRate >= RR_THRESHOLD

rrCrossed(prev, curr) ==
    curr.respiratoryRate >= RR_THRESHOLD /\ prev.respiratoryRate < RR_THRESHOLD

\* mutant: the previous reading is not looked at
sbpCrossed_level(prev, curr) == curr.systolicBP <= SBP_THRESHOLD

sbpCrossed(prev, curr) ==
    curr.systolicBP <= SBP_THRESHOLD /\ prev.systolicBP > SBP_THRESHOLD

\* mutant: any change of the (lower-cased) mental status
msChanged_anyChange(prev, curr) ==
    toLowerCase(prev.mentalStatus) # toLowerCase(curr.mentalStatus)

\* mutant: the previous status compared as written
msChanged_caseSensitive(prev, curr) ==
    /\ prev.mentalStatus = ALERT_LITERAL
    /\ toLowerCase(curr.mentalStatus) # ALERT_LITERAL

msChanged(prev, curr) ==
    /\ toLowerCase(prev.mentalStatus) = ALERT_LITERAL
    /\ toLowerCase(curr.mentalStatus) # ALERT_LITERAL

alert(type, level, curr, explanation) ==
    <<[type |-> type, level |-> level, timestamp |-> curr.timestamp,
       explanation |-> explanation]>>

EXPL_HIGH == "qSOFA screening score is at or above 2 based on respiratory rate, blood pressure, and mental status criteria."
EXPL_RR   == "Respiratory rate increased above the screening threshold of 22 breaths/min compared to the prior reading."
EXPL_SBP  == "Systolic blood pressure dropped to or below the screening threshold of 100 mmHg compared to the prior reading."
EXPL_MS   == "Mental status changed from fully alert to an altered state between readings based on recorded input."

explEscalating(prev, curr) ==
    "qSOFA screening score increased from " \o ToString(prev.qsofaScore)
      \o " to " \o ToString(curr.qsofaScore) \o " between readings."

\* mutant: the high-risk check placed before the escalation check
pairAlerts_highFirst(prev, curr) ==
    (IF highRisk(prev, curr) THEN alert(T_HIGH, "high", curr, EXPL_HIGH) ELSE <<>>)
    \o (IF escalating(prev, curr)
        THEN alert(T_ESCALATING, "warning", curr, explEscalating(prev, curr)) ELSE <<>>)
    \o (IF rrCrossed(prev, curr) THEN alert(T_RR, "warning", curr, EXPL_RR) ELSE <<>>)
    \o (IF sbpCrossed(prev, curr) THEN alert(T_SBP, "warning", curr, EXPL_SBP) ELSE <<>>)
    \o (IF msChanged(prev, curr) THEN alert(T_MS, "high", curr, EXPL_MS) ELSE <<>>)

\* mutant: the escalation branch pushes the high-risk alert too
pairAlerts_highTwice(prev, curr) ==
    (IF escalating(prev, curr)
     THEN alert(T_ESCALATING, "warning", curr, explEscalating(prev, curr))
            \o (IF curr.qsofaScore >= 2 THEN alert(T_HIGH, "high", curr, EXPL_HIGH) ELSE <<>>)
     ELSE <<>>)
    \o (IF highRisk(prev, curr) THEN alert(T_HIGH, "high", curr, EXPL_HIGH) ELSE <<>>)
    \o (IF rrCrossed(prev, curr) THEN alert(T_RR, "warning", curr, EXPL_RR) ELSE <<>>)
    \o (IF sbpCrossed(prev, curr) THEN alert(T_SBP, "warning", curr, EXPL_SBP) ELSE <<>>)
    \o (IF msChanged(prev, curr) THEN alert(T_MS, "high", curr, EXPL_MS) ELSE <<>>)

\* the body of the loop: the alerts pushed for one adjacent pair
pairAlerts(prev, curr) ==
    (IF escalating(prev, curr)
     THEN alert(T_ESCALATING, "warning", curr, explEscalating(prev, curr)) ELSE <<>>)
    \o (IF highRisk(prev, curr) THEN alert(T_HIGH, "high", curr, EXPL_HIGH) ELSE <<>>)
    \o (IF rrCrossed(prev, curr) THEN alert(T_RR, "warning", curr, EXPL_RR) ELSE <<>>)
    \o (IF sbpCrossed(prev, curr) THEN alert(T_SBP, "warning", curr, EXPL_SBP) ELSE <<>>)
    \o (IF msChanged(prev, curr) THEN alert(T_MS, "high", curr, EXPL_MS) ELSE <<>>)

\* for (let i = 1; i < readings.length; i++), with i counted from 2 as TLA+
\* sequences are indexed from 1
RECURSIVE alertLoop(_, _, _)
alertLoop(rs, i, alerts) ==
    IF i > Len(rs) THEN alerts
    ELSE alertLoop(rs, i + 1, alerts \o pairAlerts(rs[i - 1], rs[i]))

\* mutant: the first reading is checked for a high score as well
deriveAlerts_firstToo(rs) ==
    (IF Len(rs) > 0 /\ rs[1].qsofaScore >= 2
     THEN alert(T_HIGH, "high", rs[1], EXPL_HIGH)
     ELSE <<>>)
    \o alertLoop(rs, 2, <<>>)

deriveAlerts(rs) == alertLoop(rs, 2, <<>>)

patientView(p) ==
    [externalId |-> p.externalId, name |-> p.name, location |-> p.location]

GetSummary(externalId) ==
    /\ UNCHANGED <<patients, readings, observation, scoreResult, requests>>
    /\ LET i == findOne(patients, externalId) IN
       IF i = 0
       THEN response' = [op |-> "getSummary", status |-> 404,
                         error |-> "Patient not found"]
       ELSE \E rs \in sortByTimestamp(findReadings(readings, patients[i]._id)) :
              IF Len(rs) = 0
              THEN response' = [op |-> "getSummary", status |-> 200,
                                patient |-> patientView(patients[i]),
                                readings |-> <<>>, alerts |-> <<>>,
                                overall |-> "null"]
              ELSE response' = [op |-> "getSummary", status |-> 200,
                                patient |-> patientView(patients[i]),
                                readings |-> rs, alerts |-> deriveAlerts(rs),
                                overall |-> [latestQSOFA |-> rs[Len(rs)].qsofaScore,
                                             latestRiskLabel |-> rs[Len(rs)].qsofaRiskLabel,
                                             totalReadings |-> Len(rs)]]

----------------------------------------------------------------------------
(* GET /api/patients and GET /api/readings *)

READINGS_LIMIT == 100

reverse(q) == [i \in DOMAIN q |-> q[Len(q) + 1 - i]]

\* .sort({ createdAt: -1 }): the latest created first
GetPatients ==
    /\ UNCHANGED <<patients, readings, observation, scoreResult, requests>>
    /\ response' = [op |-> "getPatients", status |-> 200,
                    count |-> Len(patients), patients |-> reverse(patients)]

\* .populate('patient', 'externalId name location'): the reading with the
\* patient's document in the place of its _id
populate(ps, r) ==
    [r EXCEPT !.patient = [_id |-> ps[@]._id, externalId |-> ps[@].externalId,
                           name |-> ps[@].name, location |-> ps[@].location]]

\* .sort({ timestamp: -1 }).limit(100): the latest first, equal timestamps
\* in an order the database does not fix
GetReadings ==
    /\ UNCHANGED <<patients, readings, observation, scoreResult, requests>>
    /\ \E rs \in sortByTimestamp(readings) :
          LET latestFirst == reverse(rs)
              n    == IF Len(rs) < READINGS_LIMIT THEN Len(rs) ELSE READINGS_LIMIT
              page == [i \in 1..n |-> populate(patients, latestFirst[i])]
          IN  response' = [op |-> "getReadings", status |-> 200,
                           count |-> n, readings |-> page]

----------------------------------------------------------------------------
(* The server *)

NoResponse == [op |-> "none", status |-> 0]
NoObservation == [respiratoryRate |-> 0, systolicBP |-> 0, mentalStatus |-> S_Empty]
NoResult == [score |-> 0, riskLabel |-> "", reasons |-> <<>>]

Init ==
    /\ patients = <<>>
    /\ readings = <<>>
    /\ response = NoResponse
    /\ observation = NoObservation
    /\ scoreResult = NoResult
    /\ requests = <<>>

(* Spec: two patients, readings that arrive in any timestamp order and with
   equal timestamps, rejected requests and failing writes. The observations
   are one per score 0..3. *)

ExternalIds == {"p1", "p2"}
Timestamps  == {1, 2}

ServerBodies ==
    UNION {bodies({"", "Ann"}, {"ICU"}, {o[1]}, {o[2]}, {o[3]}, Timestamps) :
             o \in {<<21, 101, S_Alert>>, <<22, 101, S_ALERT>>,
                    <<22, 100, S_alert>>, <<22, 100, S_Confused>>}}

PostReadingRequest ==
    \E externalId \in ExternalIds, b \in ServerBodies \cup BadBodies, createOk \in BOOLEAN :
        /\ Len(readings) < MaxReadings
        /\ PostReading(externalId, b, createOk)

GetSummaryRequest == \E externalId \in ExternalIds : GetSummary(externalId)

Next == PostReadingRequest \/ GetSummaryRequest \/ GetPatients \/ GetReadings

Spec == Init /\ [][Next]_vars

----------------------------------------------------------------------------
(* SpecWard: one patient whose readings arrive in time order (the timestamp
   of a reading is its position in the history), every combination of the
   vital signs around the thresholds. *)

RespRates      == {21, 22}
SystolicBPs    == {100, 101}
MentalStatuses == {S_Alert, S_ALERT, S_Confused, S_Drowsy}

WardPost ==
    /\ Len(readings) < MaxWard
    /\ \E b \in bodies({"Ann"}, {"ICU"}, RespRates, SystolicBPs, MentalStatuses,
                       {Len(readings) + 1}) :
          PostReading("p1", b, TRUE)

WardSummary == GetSummary("p1")

NextWard == WardPost \/ WardSummary

SpecWard == Init /\ [][NextWard]_vars

----------------------------------------------------------------------------
(* SpecTrajectory: as SpecWard, with longer histories over fewer
   observations: every combination of the two vital signs for an alert
   patient, and a confused patient with both vital signs normal or both
   abnormal. *)

TrajectoryObservations ==
    {<<21, 101, S_Alert>>, <<22, 101, S_Alert>>, <<21, 100, S_Alert>>,
     <<22, 100, S_Alert>>, <<21, 101, S_Confused>>, <<22, 100, S_Confused>>}

TrajectoryPost ==
    /\ Len(readings) < MaxHistory
    /\ \E o \in TrajectoryObservations :
        \E b \in bodies({"Ann"}, {"ICU"}, {o[1]}, {o[2]}, {o[3]}, {Len(readings) + 1}) :
          PostReading("p1", b, TRUE)

TrajectorySummary == GetSummary("p1")

NextTrajectory == TrajectoryPost \/ TrajectorySummary

SpecTrajectory == Init /\ [][NextTrajectory]_vars

----------------------------------------------------------------------------
(* SpecScore: calculateQSOFA called directly on one observation. *)

Observations ==
    [respiratoryRate : {0, 21, 22, 23, 40},
     systolicBP : {0, 99, 100, 101, 180},
     mentalStatus : {S_Empty, S_Alert, S_alert, S_ALERT, S_Confused, S_Drowsy}]

InitScore ==
    /\ patients = <<>>
    /\ readings = <<>>
    /\ response = NoResponse
    /\ observation \in Observations
    /\ scoreResult = NoResult
    /\ requests = <<>>

Calculate ==
    /\ scoreResult = NoResult
    /\ scoreResult' = calculateQSOFA(observation)
    /\ UNCHANGED <<patients, readings, response, observation, requests>>

NextScore == Calculate

SpecScore == InitScore /\ [][NextScore]_vars

----------------------------------------------------------------------------
(* POST /api/patients/:externalId/readings, await by await.

   The handler awaits Patient.findOne, then Patient.create or patient.save,
   then Reading.create; other requests run between the awaits. requests[s]
   is one request: where it stands (pc), its arguments, what findOne returned
   (found) and the handler's variable patient. *)

NoPatient == [_id |-> 0, externalId |-> "", name |-> "", location |-> ""]

NoBody == [name |-> "", location |-> ""]

Idle == [pc |-> "idle", externalId |-> "", body |-> NoBody,
         found |-> NoPatient, patient |-> NoPatient]

\* mutant: the left operand whatever it is
orElse_left(a, b) == a

\* a || b on strings
orElse(a, b) == IF truthyText(a) THEN a ELSE b

\* lines 115-128: the request arrives and is validated
StartPost(s, externalId, b) ==
    /\ requests[s].pc \in {"idle", "done"}
    /\ UNCHANGED <<patients, readings, observation, scoreResult>>
    /\ IF missingRequired(b)
       THEN /\ response' = [op |-> "postReading", status |-> 400,
                            error |-> "Missing required fields. Require respiratoryRate, systolicBP, mentalStatus, timestamp."]
            /\ requests' = [requests EXCEPT ![s] = [Idle EXCEPT !.pc = "done"]]
       ELSE /\ response' = response
            /\ requests' = [requests EXCEPT ![s] =
                              [pc |-> "findOne", externalId |-> externalId, body |-> b,
                               found |-> NoPatient, patient |-> NoPatient]]

\* line 101: await Patient.findOne({ externalId })
FindPatient(s) ==
    /\ requests[s].pc = "findOne"
    /\ UNCHANGED <<patients, readings, response, observation, scoreResult>>
    /\ LET i == findOne(patients, requests[s].externalId)
           p == IF i = 0 THEN NoPatient ELSE patients[i]
       IN  requests' = [requests EXCEPT ![s] =
                          [@ EXCEPT !.pc = "ensure", !.found = p, !.patient = p]]

\* lines 102-108: await Patient.create(...), or the two assignments and
\* await patient.save(), which writes the paths the assignments changed
WritePatient(s) ==
    /\ requests[s].pc = "ensure"
    /\ UNCHANGED <<readings, response, observation, scoreResult>>
    /\ LET r        == requests[s]
           name     == textField(r.body, "name")
           location == textField(r.body, "location")
       IN
       IF r.patient._id = 0
       THEN LET created == [_id |-> Len(patients) + 1, externalId |-> r.externalId,
                            name |-> name, location |-> location]
            IN  /\ patients' = Append(patients, created)
                /\ requests' = [requests EXCEPT ![s] =
                                  [@ EXCEPT !.pc = "create", !.patient = created]]
       ELSE IF (truthyText(name) /\ name # r.patient.name)
                 \/ (truthyText(location) /\ location # r.patient.location)
       THEN LET newName     == orElse(name, r.patient.name)
                newLocation == orElse(location, r.patient.location)
                saved == [r.patient EXCEPT !.name = newName, !.location = newLocation]
            IN  /\ patients' = [patients EXCEPT
                                  ![r.patient._id].name =
                                      IF newName # r.patient.name THEN newName ELSE @,
                                  ![r.patient._id].location =
                                      IF newLocation # r.patient.location THEN newLocation ELSE @]
                /\ requests' = [requests EXCEPT ![s] =
                                  [@ EXCEPT !.pc = "create", !.patient = saved]]
       ELSE /\ patients' = patients
            /\ requests' = [requests EXCEPT ![s] = [@ EXCEPT !.pc = "create"]]

\* lines 131-148: the score, await Reading.create(...) and the response
StoreReading(s) ==
    /\ requests[s].pc = "create"
    /\ UNCHANGED <<patients, observation, scoreResult>>
    /\ LET r       == requests[s]
           reading == newReading(r.patient._id, r.body)
       IN  /\ readings' = createReading(readings, reading)
           /\ response' = [op |-> "postReading", status |-> 201,
                           patientId |-> r.patient.externalId, reading |-> reading]
           /\ requests' = [requests EXCEPT ![s] = [@ EXCEPT !.pc = "done"]]

\* the requests that have been accepted and have not stored their reading
Pending == {s \in DOMAIN requests : requests[s].pc \in {"findOne", "ensure", "create"}}

----------------------------------------------------------------------------
(* SpecPatient: the requests of one patient, one after the other, with every
   combination of an empty and two non-empty names and locations. *)

PatientNames     == {"", "Ann", "Bob"}
PatientLocations == {"", "ICU", "Ward"}

InitPatient ==
    /\ patients = <<>>
    /\ readings = <<>>
    /\ response = NoResponse
    /\ observation = NoObservation
    /\ scoreResult = NoResult
    /\ requests = <<Idle>>

PatientStart ==
    /\ Len(readings) < MaxCalls
    /\ \E b \in bodies(PatientNames, PatientLocations, {22}, {100}, {S_Confused}, {1}) :
          StartPost(1, "p1", b)

PatientFind == FindPatient(1)

PatientWrite == WritePatient(1)

PatientStore == StoreReading(1)

NextPatient == PatientStart \/ PatientFind \/ PatientWrite \/ PatientStore

SpecPatient == InitPatient /\ [][NextPatient]_vars

----------------------------------------------------------------------------
(* SpecConcurrent: two requests for one externalId in flight at once. Each
   await of the handler (findOne, create or save, Reading.create) is a step
   of its own, and the steps of the two requests interleave freely. *)

Handlers == {1, 2}

ConcurrentBodies == bodies({"", "Ann"}, {"ICU"}, {18, 22}, {100}, {S_Alert}, {1, 2})

InitConcurrent ==
    /\ patients = <<>>
    /\ readings = <<>>
    /\ response = NoResponse
    /\ observation = NoObservation
    /\ scoreResult = NoResult
    /\ requests = [s \in Handlers |-> Idle]

ConcurrentStart ==
    /\ Len(readings) + Cardinality(Pending) < MaxPosts
    /\ \E s \in Handlers : \E b \in ConcurrentBodies : StartPost(s, "p1", b)

ConcurrentFind == \E s \in Handlers : FindPatient(s)

ConcurrentWrite == \E s \in Handlers : WritePatient(s)

ConcurrentStore == \E s \in Handlers : StoreReading(s)

ConcurrentSummary == GetSummary("p1")

NextConcurrent ==
    \/ ConcurrentStart
    \/ ConcurrentFind
    \/ ConcurrentWrite
    \/ ConcurrentStore
    \/ ConcurrentSummary

SpecConcurrent == InitConcurrent /\ [][NextConcurrent]_vars

----------------------------------------------------------------------------
(* Properties *)

\* the word "alert" in any mix of upper and lower case, spelled out
IsAlertWord(s) ==
    /\ Len(s) = 5
    /\ s[1] \in {"a", "A"}
    /\ s[2] \in {"l", "L"}
    /\ s[3] \in {"e", "E"}
    /\ s[4] \in {"r", "R"}
    /\ s[5] \in {"t", "T"}

Scored == scoreResult # NoResult

\* the reasons a score is expected to list, as a set of positions 1..3
ExpectedCriteria(o) ==
    {k \in 1..3 :
        \/ k = 1 /\ o.respiratoryRate >= 22
        \/ k = 2 /\ o.systolicBP <= 100
        \/ k = 3 /\ o.mentalStatus # <<>> /\ ~IsAlertWord(o.mentalStatus)}

ReasonAt == <<REASON_RR, REASON_SBP, REASON_MS>>

\* C1: calculateQSOFA returns as score the number of the three criteria that
\* hold (respiratoryRate >= 22, systolicBP <= 100, mentalStatus non-empty and
\* not "alert" in any case) and as reasons the reason strings of exactly those
\* criteria, in the order respiratory rate, blood pressure, mental status.
\* The thresholds are inclusive; "ALERT", "Alert", "alert" and the empty
\* string leave the mental-status criterion unfired.
C1_ScoreCountsCriteria ==
    Scored =>
        LET o == observation
            e == ExpectedCriteria(o)
            r == scoreResult.reasons
        IN  /\ scoreResult.score = Cardinality(e)
            /\ Len(r) = Cardinality(e)
            /\ \A k \in e : \E i \in DOMAIN r : r[i] = ReasonAt[k]
            /\ \A i, j \in DOMAIN r : i < j =>
                  \E k, l \in e : k < l /\ r[i] = ReasonAt[k] /\ r[j] = ReasonAt[l]
            /\ (o.respiratoryRate = 22 /\ o.systolicBP = 100 /\ o.mentalStatus = S_Alert)
                  => scoreResult.score = 2 /\ r = <<REASON_RR, REASON_SBP>>
            /\ o.mentalStatus \in {S_ALERT, S_Alert, S_alert, S_Empty}
                  => \A i \in DOMAIN r : r[i] # REASON_MS

\* witness of C1: the boundary observation (22, 100, "ALERT") scored 2
C1_Witness ==
    /\ Scored
    /\ observation = [respiratoryRate |-> 22, systolicBP |-> 100, mentalStatus |-> S_ALERT]
    /\ scoreResult.score = 2
    /\ scoreResult.reasons = <<REASON_RR, REASON_SBP>>

\* C2: every result of calculateQSOFA has a score in 0..3 that equals the
\* number of reasons, and a risk label fixed by the score: 0 "Low screening
\* score", 1 "Intermediate screening score", 2 or 3 "High screening score".
C2_ResultWellFormed ==
    Scored =>
        /\ scoreResult.score \in 0..3
        /\ scoreResult.score = Len(scoreResult.reasons)
        /\ scoreResult.score = 0 => scoreResult.riskLabel = "Low screening score"
        /\ scoreResult.score = 1 => scoreResult.riskLabel = "Intermediate screening score"
        /\ scoreResult.score \in {2, 3} => scoreResult.riskLabel = "High screening score"

\* witness of C2: a result with score 2, labelled "High screening score"
C2_Witness ==
    /\ Scored
    /\ scoreResult.score = 2
    /\ Len(scoreResult.reasons) = 2
    /\ scoreResult.riskLabel = "High screening score"

IsSummary == response.op = "getSummary" /\ response.status = 200

\* C3: a summary of a history of zero readings or of one reading carries an
\* empty alert list, whatever the score of the single reading.
C3_NoAlertsBelowTwoReadings ==
    (IsSummary /\ Len(response.readings) <= 1) => response.alerts = <<>>

\* witness of C3: a summary of a single reading whose score is 2 or 3, with
\* no alerts
C3_Witness ==
    /\ IsSummary
    /\ Len(response.readings) = 1
    /\ response.readings[1].qsofaScore >= 2
    /\ response.alerts = <<>>

\* the readings of a summary carry their position as timestamp, so that the
\* timestamp of an alert names the pair (i - 1, i) it was pushed for
InOrder(rs) == \A i \in DOMAIN rs : rs[i].timestamp = i

\* the positions of the alerts of one type pushed for the pair (t - 1, t)
AlertsOf(type, t) ==
    {k \in DOMAIN response.alerts :
        response.alerts[k].type = type /\ response.alerts[k].timestamp = t}

AlertsOfType(type) ==
    {k \in DOMAIN response.alerts : response.alerts[k].type = type}

One(cond) == IF cond THEN 1 ELSE 0

\* C4: "High risk screening score" is a level check: for every adjacent pair
\* exactly one such alert is emitted when the current score is >= 2, whatever
\* the previous score, and none otherwise; their number is the number of
\* readings after the first whose score is >= 2.
C4_HighRiskIsLevelCheck ==
    (IsSummary /\ InOrder(response.readings)) =>
        LET rs == response.readings IN
        /\ \A i \in 2..Len(rs) :
              Cardinality(AlertsOf(T_HIGH, i)) = One(rs[i].qsofaScore >= 2)
        /\ Cardinality(AlertsOfType(T_HIGH))
              = Cardinality({i \in 2..Len(rs) : rs[i].qsofaScore >= 2})

\* witness of C4: scores [2,2,2] with two "High risk screening score" alerts
C4_Witness ==
    /\ IsSummary
    /\ Len(response.readings) = 3
    /\ \A i \in 1..3 : response.readings[i].qsofaScore = 2
    /\ Cardinality(AlertsOfType(T_HIGH)) = 2

\* C5: the two vital-sign rules are strict edge triggers: for every adjacent
\* pair "Respiratory rate threshold crossed" is emitted exactly when the
\* current rate is >= 22 and the previous one < 22, and "Blood pressure
\* threshold crossed" exactly when the current pressure is <= 100 and the
\* previous one > 100. Neither is emitted for two consecutive pairs, while
\* the value stays on the abnormal side, or on the return to the normal side.
C5_VitalSignEdgeTriggers ==
    (IsSummary /\ InOrder(response.readings)) =>
        LET rs == response.readings
            n  == Len(rs)
        IN
        /\ \A i \in 2..n :
              /\ Cardinality(AlertsOf(T_RR, i))
                    = One(rs[i].respiratoryRate >= 22 /\ rs[i - 1].respiratoryRate < 22)
              /\ Cardinality(AlertsOf(T_SBP, i))
                    = One(rs[i].systolicBP <= 100 /\ rs[i - 1].systolicBP > 100)
        /\ AlertsOf(T_RR, 1) = {} /\ AlertsOf(T_SBP, 1) = {}
        /\ \A i \in 2..(n - 1) :
              /\ ~(AlertsOf(T_RR, i) # {} /\ AlertsOf(T_RR, i + 1) # {})
              /\ ~(AlertsOf(T_SBP, i) # {} /\ AlertsOf(T_SBP, i + 1) # {})
        /\ \A i \in 2..n :
              /\ rs[i - 1].respiratoryRate >= 22 => AlertsOf(T_RR, i) = {}
              /\ rs[i].respiratoryRate < 22 => AlertsOf(T_RR, i) = {}
              /\ rs[i - 1].systolicBP <= 100 => AlertsOf(T_SBP, i) = {}
              /\ rs[i].systolicBP > 100 => AlertsOf(T_SBP, i) = {}

\* witness of C5: rates 21, 22, 22 and pressures 101, 100, 100: each rule
\* fired for the first pair only
C5_Witness ==
    /\ IsSummary
    /\ Len(response.readings) = 3
    /\ response.readings[1].respiratoryRate = 21 /\ response.readings[1].systolicBP = 101
    /\ \A i \in 2..3 : /\ response.readings[i].respiratoryRate = 22
                       /\ response.readings[i].systolicBP = 100
    /\ AlertsOfType(T_RR) = AlertsOf(T_RR, 2) /\ Cardinality(AlertsOf(T_RR, 2)) = 1
    /\ AlertsOfType(T_SBP) = AlertsOf(T_SBP, 2) /\ Cardinality(AlertsOf(T_SBP, 2)) = 1

StatusesOf(rs) == [i \in DOMAIN rs |-> rs[i].mentalStatus]

\* C6: "Change in mental status" is emitted for an adjacent pair exactly when
\* the previous mental status is "alert" in any case and the current one is
\* not; never on the change back to "alert"; and between two emissions the
\* mental status has been "alert" again. Alert, Confused, Alert and Alert,
\* Confused, Drowsy give one such alert each.
C6_MentalStatusEdge ==
    (IsSummary /\ InOrder(response.readings)) =>
        LET rs == response.readings
            n  == Len(rs)
        IN
        /\ \A i \in 2..n :
              Cardinality(AlertsOf(T_MS, i))
                 = One(IsAlertWord(rs[i - 1].mentalStatus) /\ ~IsAlertWord(rs[i].mentalStatus))
        /\ AlertsOf(T_MS, 1) = {}
        /\ \A i \in 2..n : IsAlertWord(rs[i].mentalStatus) => AlertsOf(T_MS, i) = {}
        /\ \A i, j \in 2..n :
              (i < j /\ AlertsOf(T_MS, i) # {} /\ AlertsOf(T_MS, j) # {})
                 => \E k \in (i + 1)..(j - 1) : IsAlertWord(rs[k].mentalStatus)
        /\ StatusesOf(rs) \in {<<S_Alert, S_Confused, S_Alert>>, <<S_Alert, S_Confused, S_Drowsy>>}
              => Cardinality(AlertsOfType(T_MS)) = 1

\* witness of C6: Alert, Confused, Drowsy with a single alert, for the first
\* pair
C6_Witness ==
    /\ IsSummary
    /\ StatusesOf(response.readings) = <<S_Alert, S_Confused, S_Drowsy>>
    /\ Cardinality(AlertsOfType(T_MS)) = 1
    /\ AlertsOfType(T_MS) = AlertsOf(T_MS, response.readings[2].timestamp)

\* the five rules, in the order the loop body evaluates them
RuleType == <<T_ESCALATING, T_HIGH, T_RR, T_SBP, T_MS>>

RuleHolds(r, prev, curr) ==
    \/ r = 1 /\ curr.qsofaScore > prev.qsofaScore
    \/ r = 2 /\ curr.qsofaScore >= 2
    \/ r = 3 /\ curr.respiratoryRate >= 22 /\ prev.respiratoryRate < 22
    \/ r = 4 /\ curr.systolicBP <= 100 /\ prev.systolicBP > 100
    \/ r = 5 /\ IsAlertWord(prev.mentalStatus) /\ ~IsAlertWord(curr.mentalStatus)

\* <<i, r>>: rule r holds of the pair (i - 1, i)
Firings(rs) ==
    {k \in (2..Len(rs)) \X (1..5) : RuleHolds(k[2], rs[k[1] - 1], rs[k[1]])}

Earlier(a, b) == a[1] < b[1] \/ (a[1] = b[1] /\ a[2] < b[2])

\* the position in the alert list of the alert of firing k, when the list is
\* ordered by pair and then by rule
Position(rs, k) == 1 + Cardinality({x \in Firings(rs) : Earlier(x, k)})

ScoresOf(rs) == [i \in DOMAIN rs |-> rs[i].qsofaScore]

TypesOf(alerts) == [i \in DOMAIN alerts |-> alerts[i].type]

IsScoreAlert(type) == type \in {T_ESCALATING, T_HIGH}

\* C7: the alert list is ordered by pair and, within a pair, by rule
\* (Risk escalating, High risk screening score, Respiratory rate threshold
\* crossed, Blood pressure threshold crossed, Change in mental status); each
\* alert carries the timestamp of the current reading of its pair, so the
\* alert timestamps do not decrease when the reading timestamps ascend.
\* Scores [0,1,2] give Risk escalating, Risk escalating, High risk screening
\* score.
C7_AlertOrder ==
    IsSummary =>
        LET rs == response.readings
            al == response.alerts
        IN
        /\ Len(al) = Cardinality(Firings(rs))
        /\ \A k \in Firings(rs) :
              /\ al[Position(rs, k)].type = RuleType[k[2]]
              /\ al[Position(rs, k)].timestamp = rs[k[1]].timestamp
        /\ (\A i, j \in DOMAIN rs : i < j => rs[i].timestamp <= rs[j].timestamp)
              => \A a, b \in DOMAIN al : a < b => al[a].timestamp <= al[b].timestamp
        /\ ScoresOf(rs) = <<0, 1, 2>>
              => SelectSeq(TypesOf(al), IsScoreAlert) = <<T_ESCALATING, T_ESCALATING, T_HIGH>>

\* witness of C7: scores [0,1,2], with the alerts on the score being Risk
\* escalating, Risk escalating, High risk screening score
C7_Witness ==
    /\ IsSummary
    /\ ScoresOf(response.readings) = <<0, 1, 2>>
    /\ SelectSeq(TypesOf(response.alerts), IsScoreAlert)
          = <<T_ESCALATING, T_ESCALATING, T_HIGH>>
    /\ response.alerts[1].timestamp = response.readings[2].timestamp
    /\ response.alerts[Len(response.alerts)].timestamp = response.readings[3].timestamp

AlertsAt(t) == {k \in DOMAIN response.alerts : response.alerts[k].timestamp = t}

\* C8 as stated: at most 4 alerts for every adjacent pair.
C8_AtMostFourPerPair ==
    (IsSummary /\ InOrder(response.readings)) =>
        \A i \in 2..Len(response.readings) : Cardinality(AlertsAt(i)) <= 4

\* C8, amended: for every adjacent pair at most 5 alerts are emitted, at most
\* one of each of the five types.
C8_AtMostFivePerPair ==
    (IsSummary /\ InOrder(response.readings)) =>
        \A i \in 2..Len(response.readings) :
            /\ Cardinality(AlertsAt(i)) <= 5
            /\ \A r \in 1..5 : Cardinality(AlertsOf(RuleType[r], i)) <= 1

\* witness of C8: a pair for which all five rules fired
C8_Witness ==
    /\ IsSummary
    /\ InOrder(response.readings)
    /\ Len(response.readings) = 2
    /\ Cardinality(AlertsAt(2)) = 5
    /\ \A r \in 1..5 : Cardinality(AlertsOf(RuleType[r], 2)) = 1

\* every reading has the vital signs, the mental status and the score of the
\* first one
Identical(rs) ==
    \A i \in DOMAIN rs :
        /\ rs[i].respiratoryRate = rs[1].respiratoryRate
        /\ rs[i].systolicBP = rs[1].systolicBP
        /\ rs[i].mentalStatus = rs[1].mentalStatus
        /\ rs[i].qsofaScore = rs[1].qsofaScore

\* C9 as stated: a history of identical readings gives no alerts, whatever
\* its length and score.
C9_IdenticalNoAlerts ==
    (IsSummary /\ Identical(response.readings)) => response.alerts = <<>>

\* C9, amended: a history of identical readings gives no alerts when the
\* score is below 2, and when the score is 2 or 3 only "High risk screening
\* score" alerts, one for every adjacent pair.
C9_IdenticalOnlyHighRisk ==
    (IsSummary /\ Identical(response.readings)) =>
        LET rs == response.readings
            al == response.alerts
        IN
        /\ \A k \in DOMAIN al : al[k].type = T_HIGH
        /\ Len(rs) >= 1 /\ rs[1].qsofaScore < 2 => al = <<>>
        /\ Len(rs) >= 1 /\ rs[1].qsofaScore >= 2 => Len(al) = Len(rs) - 1

\* witness of C9: three identical readings on the abnormal side of one
\* threshold (score 1), no alerts
C9_Witness ==
    /\ IsSummary
    /\ Len(response.readings) = 3
    /\ Identical(response.readings)
    /\ response.readings[1].qsofaScore = 1
    /\ response.alerts = <<>>

NonDecreasing(rs) == \A i \in 2..Len(rs) : rs[i].qsofaScore >= rs[i - 1].qsofaScore

\* C10 as stated: "Risk escalating" is emitted for a pair exactly when the
\* current score is above the previous one, and at most twice over a history
\* whose scores never decrease.
C10_AtMostTwoEscalations ==
    (IsSummary /\ InOrder(response.readings)) =>
        LET rs == response.readings IN
        /\ \A i \in 2..Len(rs) :
              Cardinality(AlertsOf(T_ESCALATING, i))
                 = One(rs[i].qsofaScore > rs[i - 1].qsofaScore)
        /\ NonDecreasing(rs) => Cardinality(AlertsOfType(T_ESCALATING)) <= 2

\* C10, amended: "Risk escalating" is emitted for a pair exactly when the
\* current score is above the previous one, and at most three times over a
\* history whose scores never decrease.
C10_AtMostThreeEscalations ==
    (IsSummary /\ InOrder(response.readings)) =>
        LET rs == response.readings IN
        /\ \A i \in 2..Len(rs) :
              Cardinality(AlertsOf(T_ESCALATING, i))
                 = One(rs[i].qsofaScore > rs[i - 1].qsofaScore)
        /\ AlertsOf(T_ESCALATING, 1) = {}
        /\ NonDecreasing(rs) => Cardinality(AlertsOfType(T_ESCALATING)) <= 3

\* witness of C10: five readings with scores 0, 1, 2, 3, 3 and three "Risk
\* escalating" alerts
C10_Witness ==
    /\ IsSummary
    /\ ScoresOf(response.readings) = <<0, 1, 2, 3, 3>>
    /\ Cardinality(AlertsOfType(T_ESCALATING)) = 3

\* the request s has come back from ensurePatient, which found the patient
Ensured(s) ==
    requests[s].pc \in {"create", "done"} /\ requests[s].found._id # 0

\* C11: a call of ensurePatient for a stored patient leaves the stored name
\* as it is when it supplies an empty or absent name, also when it changes
\* the location, and sets it to the supplied name when that is non-empty; the
\* same holds of the location. A non-empty stored name or location is never
\* replaced by an empty one.
C11_UpsertKeepsNonEmpty ==
    \A s \in DOMAIN requests :
        Ensured(s) =>
            LET r == requests[s]
                d == patients[r.found._id]
            IN  /\ r.body.name = "" => d.name = r.found.name
                /\ r.body.name # "" => d.name = r.body.name
                /\ r.body.location = "" => d.location = r.found.location
                /\ r.body.location # "" => d.location = r.body.location
                /\ r.found.name # "" => d.name # ""
                /\ r.found.location # "" => d.location # ""

\* witness of C11: a call with an empty name and the location "Ward" for the
\* patient stored as ("Ann", "ICU"), who is ("Ann", "Ward") afterwards
C11_Witness ==
    /\ Ensured(1)
    /\ requests[1].found.name = "Ann" /\ requests[1].found.location = "ICU"
    /\ requests[1].body.name = "" /\ requests[1].body.location = "Ward"
    /\ patients[requests[1].found._id].name = "Ann"
    /\ patients[requests[1].found._id].location = "Ward"

\* C12: readings are append-only: whatever request is handled (POST
\* reading, GET summary, GET readings, GET patients), every stored reading
\* stays in the collection with the vital signs, mental status, timestamp,
\* score, risk label and reasons it was created with.
C12_ReadingsAppendOnly ==
    [][/\ Len(readings') >= Len(readings)
       /\ \A i \in DOMAIN readings : readings'[i] = readings[i]]_vars

\* witness of C12: two readings of one patient, stored in the order they
\* were posted (the later timestamp first), after a GET request
C12_Witness ==
    /\ Len(readings) = 2
    /\ readings[1].patient = readings[2].patient
    /\ readings[1].timestamp = 2 /\ readings[2].timestamp = 1
    /\ readings[1].qsofaScore = 0 /\ readings[2].qsofaScore = 3
    /\ response.op \in {"getSummary", "getReadings", "getPatients"}

\* C13: in every reachable state there is at most one Patient record per
\* externalId, also when POST requests for one unknown externalId run at the
\* same time and the findOne and create steps of their ensurePatient calls
\* interleave.
C13_OnePatientPerExternalId ==
    \A i, j \in DOMAIN patients :
        patients[i].externalId = patients[j].externalId => i = j

\* C14: for readings created by the POST handler (a non-empty mental status,
\* the score computed by calculateQSOFA from the reading's own values), a
\* "Risk escalating" alert for an adjacent pair comes with at least one of
\* "Respiratory rate threshold crossed", "Blood pressure threshold crossed"
\* and "Change in mental status" for the same pair.
C14_EscalationHasCause ==
    (IsSummary /\ InOrder(response.readings)) =>
        \A i \in 2..Len(response.readings) :
            AlertsOf(T_ESCALATING, i) # {} =>
                AlertsOf(T_RR, i) \cup AlertsOf(T_SBP, i) \cup AlertsOf(T_MS, i) # {}

\* witness of C14: ALERT then Confused with the same normal rate and
\* pressure: the score rises from 0 to 1 and the only alert besides
\* "Risk escalating" is "Change in mental status"
C14_Witness ==
    /\ IsSummary
    /\ Len(response.readings) = 2
    /\ InOrder(response.readings)
    /\ response.readings[1].mentalStatus = S_ALERT
    /\ response.readings[2].mentalStatus = S_Confused
    /\ response.readings[1].qsofaScore = 0 /\ response.readings[2].qsofaScore = 1
    /\ TypesOf(response.alerts) = <<T_ESCALATING, T_MS>>

====
